---- MODULE Spec2Model ----
(***************************************************************************)
(* A model of the GitHub README searcher: the two searcher                 *)
(* implementations (app/core/searcher.py, called "core" here, and          *)
(* github_api_searcher.py, called "legacy"), the routes of the two         *)
(* servers, the command line tool, and the service of app/api/routes.py    *)
(* as a process that serves many requests and keeps their statistics.      *)
(*                                                                         *)
(* Text is a sequence of code points, so that base64 and UTF-8 decoding    *)
(* are computed and a pass-through is distinguishable from a decoding.     *)
(* A JSON value is a tagged record: a key that is absent, null, a string   *)
(* or an integer.  Python's None is the JSON null.                         *)
(***************************************************************************)
EXTENDS Integers, Sequences, FiniteSets, TLC

\* ------------------------------------------------------------- bounds
MaxLimit == 2
MaxStars == 1

\* ------------------------------------------------- program constants
MaxPerPage == 100
MaxPages == 3
DefaultStars == 0

\* -------------------------------------------------------- JSON values
Missing == [t |-> "missing"]
None == [t |-> "null"]
JStr(s) == [t |-> "str", v |-> s]
JInt(n) == [t |-> "int", v |-> n]

\* dict.get(key, default): the default is used only when the key is absent;
\* a key that is present with the value null yields None.
DictGet(d, key, default) == IF d[key] = Missing THEN default ELSE d[key]

\* d[key] raises KeyError when the key is absent.
HasKey(d, key) == d[key] # Missing

Min(a, b) == IF a <= b THEN a ELSE b

\* ---------------------------------------------------- text constants
Slash == 47
EmptyText == <<>>
UnknownText == <<85, 110, 107, 110, 111, 119, 110>>
PythonText == <<80, 121>>
DescrText == <<100>>
RepoName(id) == <<114, id>>
OwnerName == <<111>>

\* ------------------------------------------- upstream search results
\* "null_opt": description and language are null; "no_opt": both keys are
\* absent; the other shapes lack one key or give full_name no or two slashes.
Shapes == {"ok", "no_name", "no_stars", "no_slash", "two_slash", "null_opt", "no_opt"}

\* One item of the upstream's items array.
RawItem(id, stars, shape) ==
  [name |-> IF shape = "no_name" THEN Missing ELSE JStr(RepoName(id)),
   full_name |->
     CASE shape = "no_slash" -> JStr(RepoName(id))
       [] shape = "two_slash" -> JStr(OwnerName \o <<Slash>> \o RepoName(id) \o <<Slash, 120>>)
       [] OTHER -> JStr(OwnerName \o <<Slash>> \o RepoName(id)),
   description |->
     CASE shape = "null_opt" -> None
       [] shape = "no_opt" -> Missing
       [] OTHER -> JStr(DescrText),
   stargazers_count |-> IF shape = "no_stars" THEN Missing ELSE JInt(stars),
   language |->
     CASE shape = "null_opt" -> None
       [] shape = "no_opt" -> Missing
       [] OTHER -> JStr(PythonText),
   html_url |-> JStr(<<104>> \o RepoName(id))]

\* The items of page p: a head chosen freely (stars st, at most one item,
\* at position bad, of a shape other than "ok"), followed by well-formed
\* items of fill stars each up to n items.
PageItems(p, pp, n, st, bad, shape, fill) ==
  [i \in 1..n |->
     RawItem((p - 1) * (pp + 1) + i,
             IF i <= Len(st) THEN st[i] ELSE fill,
             IF i = bad THEN shape ELSE "ok")]

StarSeqs(k) == [1..k -> 0..MaxStars]

HeadLens(lim) == IF lim <= MaxLimit THEN 0..lim ELSE {0}

\* The lengths of a page whose head has k items: the head alone, one item
\* short of the page size, the page size and, below the upstream's own
\* maximum, one item more than was asked for.
PageLens(pp, k) ==
  {n \in {k, pp - 1, pp} \cup (IF pp < MaxPerPage THEN {pp + 1} ELSE {}) : n >= k}

\* The stars of the items after the head: either value after an empty
\* head (so that pages rise and fall against each other), the highest after
\* a head (so that a head below it is out of order).
Fills(k) == IF k = 0 THEN {0, MaxStars} ELSE {MaxStars}

\* The item arrays a page can carry: heads of at most limit items for the
\* limits up to MaxLimit, no head for the larger limits; of the length of
\* the head, or one less than, equal to or one more than the page size.
\* A page without a head may still open with an item that has no name.
OkPages(p, pp, lim) ==
  UNION {
    UNION {
      {PageItems(p, pp, n, st, 0, "ok", fill) : st \in StarSeqs(k), fill \in Fills(k)}
      \cup
      {PageItems(p, pp, n, st, bad, shape, fill) :
         st \in StarSeqs(k), bad \in 1..k, shape \in Shapes \ {"ok"}, fill \in Fills(k)}
      \cup
      {PageItems(p, pp, n, st, 1, "no_name", fill) :
         st \in StarSeqs(k), fill \in IF k = 0 /\ n > 0 THEN Fills(k) ELSE {}}
      : n \in PageLens(pp, k)}
    : k \in HeadLens(lim)}

\* What one GET of /search/repositories can come to:
\*   "ok"      status 200 and a JSON object with an items array
\*   "noitems" status 200 and a JSON object without the items key
\*   "badjson" status 200 and a body response.json() cannot parse
\*   "status"  a status other than 200
\*   "exc"     session.get raises (transport failure)
PageResponses(p, pp, lim) ==
  {[kind |-> "ok", items |-> its] : its \in OkPages(p, pp, lim)}
  \cup {[kind |-> k, items |-> <<>>] : k \in {"noitems", "badjson", "status", "exc"}}

\* ------------------------------------------------ base64 and UTF-8
\* The value of a base64 alphabet character, -1 for any other code point.
B64Value(c) ==
  CASE c >= 65 /\ c <= 90 -> c - 65
    [] c >= 97 /\ c <= 122 -> c - 71
    [] c >= 48 /\ c <= 57 -> c + 4
    [] c = 43 -> 62
    [] c = 47 -> 63
    [] OTHER -> -1

DecodeError == [ok |-> FALSE, v |-> <<>>]
Decoded(v) == [ok |-> TRUE, v |-> v]

\* binascii.a2b_base64 without strict mode, as base64.b64decode calls it:
\* characters outside the alphabet are skipped, a pad that completes a
\* quad ends the input, and an incomplete quad at the end is an error.
RECURSIVE A2bBase64(_, _, _, _, _, _)
A2bBase64(s, i, quad, left, pads, out) ==
  IF i > Len(s) THEN (IF quad # 0 THEN DecodeError ELSE Decoded(out))
  ELSE IF s[i] = 61 THEN
    IF quad >= 2 /\ quad + pads + 1 >= 4 THEN Decoded(out)
    ELSE A2bBase64(s, i + 1, quad, left, IF quad >= 2 THEN pads + 1 ELSE pads, out)
  ELSE IF B64Value(s[i]) < 0 THEN A2bBase64(s, i + 1, quad, left, pads, out)
  ELSE
    CASE quad = 0 -> A2bBase64(s, i + 1, 1, B64Value(s[i]), 0, out)
      [] quad = 1 ->
           A2bBase64(s, i + 1, 2, B64Value(s[i]) % 16, 0,
                     Append(out, left * 4 + B64Value(s[i]) \div 16))
      [] quad = 2 ->
           A2bBase64(s, i + 1, 3, B64Value(s[i]) % 4, 0,
                     Append(out, left * 16 + B64Value(s[i]) \div 4))
      [] OTHER ->
           A2bBase64(s, i + 1, 0, 0, 0, Append(out, left * 64 + B64Value(s[i])))

\* base64.b64decode of a str: the text must be ASCII.
B64Decode(s) ==
  IF \E i \in 1..Len(s) : s[i] > 127 THEN DecodeError ELSE A2bBase64(s, 1, 0, 0, 0, <<>>)

IsCont(bs, i) == i <= Len(bs) /\ bs[i] >= 128 /\ bs[i] <= 191

\* bytes.decode('utf-8'), strict: the code points, or an error.
RECURSIVE Utf8Decode(_, _, _)
Utf8Decode(bs, i, out) ==
  IF i > Len(bs) THEN Decoded(out)
  ELSE LET b == bs[i] IN
    CASE b < 128 -> Utf8Decode(bs, i + 1, Append(out, b))
      [] b >= 194 /\ b <= 223 ->
           IF IsCont(bs, i + 1)
           THEN Utf8Decode(bs, i + 2, Append(out, (b - 192) * 64 + (bs[i + 1] - 128)))
           ELSE DecodeError
      [] b >= 224 /\ b <= 239 ->
           IF IsCont(bs, i + 1) /\ IsCont(bs, i + 2)
              /\ (b = 224 => bs[i + 1] >= 160) /\ (b = 237 => bs[i + 1] <= 159)
           THEN Utf8Decode(bs, i + 3,
                  Append(out, (b - 224) * 4096 + (bs[i + 1] - 128) * 64 + (bs[i + 2] - 128)))
           ELSE DecodeError
      [] b >= 240 /\ b <= 244 ->
           IF IsCont(bs, i + 1) /\ IsCont(bs, i + 2) /\ IsCont(bs, i + 3)
              /\ (b = 240 => bs[i + 1] >= 144) /\ (b = 244 => bs[i + 1] <= 143)
           THEN Utf8Decode(bs, i + 4,
                  Append(out, (b - 240) * 262144 + (bs[i + 1] - 128) * 4096
                              + (bs[i + 2] - 128) * 64 + (bs[i + 3] - 128)))
           ELSE DecodeError
      [] OTHER -> DecodeError

\* base64.b64decode(content).decode('utf-8')
B64DecodeUtf8(s) ==
  IF B64Decode(s).ok THEN Utf8Decode(B64Decode(s).v, 1, <<>>) ELSE DecodeError

\* --------------------------------------------------- README responses
Base64Text == <<98, 97, 115, 101, 54, 52>>
NoneText == <<110, 111, 110, 101>>
HelloWorldB64 == <<83, 71, 86, 115, 98, 71, 56, 103, 86, 50, 57, 121, 98, 71, 81, 61>>
HelloWorld == <<72, 101, 108, 108, 111, 32, 87, 111, 114, 108, 100>>
HiB64 == <<83, 71, 107, 61>>
Hi == <<72, 105>>

\* content values of the README endpoint: base64 of "Hello World", of "Hi",
\* of "Hi" with the line feed the upstream appends, of U+00E9, a truncated
\* base64 text (no padding), base64 of the byte FF (not UTF-8), the empty
\* text, the plain text "Hi!" and a text that is not ASCII.
ReadmeContents ==
  {HelloWorldB64, HiB64, HiB64 \o <<10>>, <<119, 54, 107, 61>>, <<83, 71, 107>>,
   <<47, 119, 61, 61>>, EmptyText, <<72, 105, 33>>, <<233>>}

ReadmeBodies ==
  [content : {Missing, None} \cup {JStr(c) : c \in ReadmeContents},
   encoding : {Missing, None, JStr(Base64Text), JStr(NoneText)}]

NoBody == [content |-> Missing, encoding |-> Missing]

\* What the GET of /repos/{owner}/{repo}/readme can come to: "ok" is status
\* 200 with a JSON object, "badjson" status 200 with an unparsable body,
\* "status" a status other than 200 (404), "exc" a transport failure.
ReadmeResponses ==
  {[kind |-> "ok", body |-> b] : b \in ReadmeBodies}
  \cup {[kind |-> k, body |-> NoBody] : k \in {"badjson", "status", "exc"}}

\* The responses drawn while a result list is being enriched.
EnrichReadmeResponses ==
  {[kind |-> "ok", body |-> [content |-> JStr(HiB64), encoding |-> JStr(Base64Text)]],
   [kind |-> "ok", body |-> [content |-> JStr(EmptyText), encoding |-> JStr(NoneText)]],
   [kind |-> "status", body |-> NoBody],
   [kind |-> "exc", body |-> NoBody]}

\* The multi-filename strategy: the GET of /contents/{file} ("ok", "badjson",
\* "status", "exc" as above, with the download_url of the JSON object), and
\* the GET of the download URL (raw: "ok" with a text, "status", "exc").
ReadmeFiles == <<"README.md", "README.rst", "README.txt", "README">>
RawUrl == <<117>>

CandidateResponses ==
  {[kind |-> "ok", download_url |-> u, raw |-> "ok", text |-> t] :
      u \in {Missing, None, JStr(EmptyText), JStr(RawUrl)}, t \in {Hi, EmptyText}}
  \cup {[kind |-> "ok", download_url |-> JStr(RawUrl), raw |-> r, text |-> EmptyText] :
      r \in {"status", "exc"}}
  \cup {[kind |-> k, download_url |-> Missing, raw |-> "status", text |-> EmptyText] :
      k \in {"badjson", "status", "exc"}}

CandOk(t) == [kind |-> "ok", download_url |-> JStr(RawUrl), raw |-> "ok", text |-> t]
CandRawFails == [kind |-> "ok", download_url |-> JStr(RawUrl), raw |-> "status", text |-> EmptyText]
CandNoUrl == [kind |-> "ok", download_url |-> None, raw |-> "ok", text |-> Hi]
CandFails(k) == [kind |-> k, download_url |-> Missing, raw |-> "status", text |-> EmptyText]

\* The answers to the four candidates drawn while a result list is being
\* enriched: the raw request of each fails; the first resolves; the raw
\* request of the first fails and the second resolves; the third resolves
\* to an empty text.
EnrichCandidateSeqs ==
  {<<CandRawFails, CandRawFails, CandRawFails, CandRawFails>>,
   <<CandOk(Hi), CandOk(Hi), CandOk(Hi), CandOk(Hi)>>,
   <<CandRawFails, CandOk(Hi), CandFails("exc"), CandFails("exc")>>,
   <<CandFails("exc"), CandNoUrl, CandOk(EmptyText), CandFails("status")>>}

\* ------------------------------------------------------ pure functions
\* Python truthiness of a JSON value that is None or a string.
Truthy(v) == v.t = "str" /\ v.v # <<>>

\* str.split(sep, 1): the text cut at the first sep, or the whole text.
SplitFirst(s, sep) ==
  IF \A i \in 1..Len(s) : s[i] # sep THEN <<s>>
  ELSE LET i == CHOOSE j \in 1..Len(s) : s[j] = sep /\ \A k \in 1..(j - 1) : s[k] # sep
       IN <<SubSeq(s, 1, i - 1), SubSeq(s, i + 1, Len(s))>>

\* repo['name'], repo['full_name'], repo['html_url'] (and, in the legacy
\* searcher, repo['stargazers_count']) raise KeyError on an absent key.
KeyError == "KeyError"
TokenError == "ValueError: GitHub token is required"
UnpackError == "ValueError: not enough values to unpack"
ValidationError == "ValidationError"
ClientError == "ClientError"

KeyErrorIn(which, repo) ==
  \/ ~HasKey(repo, "name")
  \/ ~HasKey(repo, "full_name")
  \/ ~HasKey(repo, "html_url")
  \/ which = "legacy" /\ ~HasKey(repo, "stargazers_count")

RepositoryInfo(which, repo) ==
  [name |-> repo.name,
   full_name |-> repo.full_name,
   description |-> DictGet(repo, "description", JStr(EmptyText)),
   stars |-> IF which = "core"
             THEN DictGet(repo, "stargazers_count", JInt(DefaultStars))
             ELSE repo.stargazers_count,
   language |-> DictGet(repo, "language", JStr(UnknownText)),
   url |-> repo.html_url,
   readme_content |-> None]

Raised(e) == [raised |-> TRUE, error |-> e, v |-> <<>>]
Returned(v) == [raised |-> FALSE, error |-> "none", v |-> v]

SetMax(S) == CHOOSE m \in S : \A k \in S : k <= m

\* list.sort(key=lambda x: x.stars, reverse=True): a stable sort, records of
\* equal stars keep their order.
RECURSIVE SortKeys(_, _)
SortKeys(s, keys) ==
  IF keys = {} THEN <<>>
  ELSE SelectSeq(s, LAMBDA r : r.stars.v = SetMax(keys)) \o SortKeys(s, keys \ {SetMax(keys)})

SetMin(S) == CHOOSE m \in S : \A k \in S : k >= m

\* SortByStarsDesc in ascending order.
RECURSIVE SortKeysAscending(_, _)
SortKeysAscending(s, keys) ==
  IF keys = {} THEN <<>>
  ELSE SelectSeq(s, LAMBDA r : r.stars.v = SetMin(keys))
       \o SortKeysAscending(s, keys \ {SetMin(keys)})
SortByStarsAsc(s) == SortKeysAscending(s, {s[i].stars.v : i \in 1..Len(s)})

SortByStarsDesc(s) == SortKeys(s, {s[i].stars.v : i \in 1..Len(s)})

\* CoreRepositoryInfos with the slice [:limit] forgotten.
CoreRepositoryInfosUntruncated(repos, lim) ==
  IF \E i \in 1..Len(repos) : KeyErrorIn("core", repos[i])
  THEN Raised(KeyError)
  ELSE Returned([i \in 1..Len(repos) |-> RepositoryInfo("core", repos[i])])

\* app/core/searcher.py: the first limit raw items, converted in arrival order.
CoreRepositoryInfos(repos, lim) ==
  LET top == SubSeq(repos, 1, Min(lim, Len(repos)))
  IN IF \E i \in 1..Len(top) : KeyErrorIn("core", top[i])
     THEN Raised(KeyError)
     ELSE Returned([i \in 1..Len(top) |-> RepositoryInfo("core", top[i])])

\* github_api_searcher.py: every raw item converted, sorted, then truncated.
LegacyRepositoryInfos(repos, lim) ==
  IF \E i \in 1..Len(repos) : KeyErrorIn("legacy", repos[i])
  THEN Raised(KeyError)
  ELSE LET sorted == SortByStarsDesc([i \in 1..Len(repos) |-> RepositoryInfo("legacy", repos[i])])
       IN Returned(SubSeq(sorted, 1, Min(lim, Len(sorted))))

\* An exception, where a value is expected.
Exc == [t |-> "exc"]

\* ReadmeTry with the decoding forgotten: the content is returned as it came.
ReadmeTryNoDecode(resp) ==
  CASE resp.kind \in {"exc", "badjson"} -> Exc
    [] resp.kind = "status" -> None
    [] OTHER -> DictGet(resp.body, "content", JStr(EmptyText))

\* ReadmeTry with every encoding other than base64 answered by None.
ReadmeTryStrictEncoding(resp) ==
  CASE resp.kind \in {"exc", "badjson"} -> Exc
    [] resp.kind = "status" -> None
    [] OTHER ->
       LET content == DictGet(resp.body, "content", JStr(EmptyText))
           encoding == DictGet(resp.body, "encoding", JStr(Base64Text))
       IN IF encoding = JStr(Base64Text)
          THEN IF content.t = "str" /\ B64DecodeUtf8(content.v).ok
               THEN JStr(B64DecodeUtf8(content.v).v)
               ELSE Exc
          ELSE None

\* The try block of get_readme_content of app/core/searcher.py: the value
\* it returns, or Exc when it raises (session.get or response.json()
\* raising, b64decode of None or of a text that is not base64, bytes that
\* are not UTF-8).
ReadmeTry(resp) ==
  CASE resp.kind \in {"exc", "badjson"} -> Exc
    [] resp.kind = "status" -> None
    [] OTHER ->
       LET content == DictGet(resp.body, "content", JStr(EmptyText))
           encoding == DictGet(resp.body, "encoding", JStr(Base64Text))
       IN IF encoding = JStr(Base64Text)
          THEN IF content.t = "str" /\ B64DecodeUtf8(content.v).ok
               THEN JStr(B64DecodeUtf8(content.v).v)
               ELSE Exc
          ELSE content

\* ReadmeResult without the except clause: the exception escapes.
ReadmeResultUncaught(resp) == ReadmeTry(resp)

\* get_readme_content of app/core/searcher.py: the except clause turns
\* every exception of the try block into None.
ReadmeResult(resp) == IF ReadmeTry(resp) = Exc THEN None ELSE ReadmeTry(resp)

\* CandidateResult without the check of the download URL.
CandidateResultNoUrlCheck(resp) ==
  IF resp.kind = "ok" /\ resp.raw = "ok" THEN JStr(resp.text) ELSE Missing

\* One candidate file of get_readme_content of github_api_searcher.py: the
\* text it returns, or Missing when the loop goes on to the next file (a
\* status other than 200, no download URL, or an exception, which the
\* except clause answers with `continue`).
CandidateResult(resp) ==
  IF resp.kind = "ok" /\ Truthy(DictGet(resp, "download_url", None)) /\ resp.raw = "ok"
  THEN JStr(resp.text)
  ELSE Missing

\* A request of get_readme_content and what came back: the operation
\* ("readme", "contents", "raw"), the candidate file, the kind of the
\* answer, whether it carried a usable download URL, and the text of a raw
\* answer of status 200.
Request(op, file, kind, usable, text) ==
  [op |-> op, file |-> file, kind |-> kind, usable |-> usable, text |-> text]

\* CandidateRequests with the contents request made twice.
CandidateRequestsRetried(resp, c) ==
  <<Request("contents", c, resp.kind, FALSE, EmptyText),
    Request("contents", c, resp.kind,
            resp.kind = "ok" /\ Truthy(DictGet(resp, "download_url", None)), EmptyText)>>
  \o (IF resp.kind = "ok" /\ Truthy(DictGet(resp, "download_url", None))
      THEN <<Request("raw", c, resp.raw, FALSE,
                     IF resp.raw = "ok" THEN resp.text ELSE EmptyText)>>
      ELSE <<>>)

\* The requests one candidate file costs: the contents request, and the
\* raw request when the contents answer carries a download URL.
CandidateRequests(resp, c) ==
  <<Request("contents", c, resp.kind,
            resp.kind = "ok" /\ Truthy(DictGet(resp, "download_url", None)), EmptyText)>>
  \o (IF resp.kind = "ok" /\ Truthy(DictGet(resp, "download_url", None))
      THEN <<Request("raw", c, resp.raw, FALSE,
                     IF resp.raw = "ok" THEN resp.text ELSE EmptyText)>>
      ELSE <<>>)

\* get_readme_content of github_api_searcher.py, resps[c] being what the
\* upstream answers for candidate c: the value returned and the requests
\* issued, in order.
RECURSIVE LegacyReadmeFrom(_, _, _)
LegacyReadmeFrom(resps, c, reqs) ==
  IF c > Len(ReadmeFiles) THEN [value |-> None, requests |-> reqs]
  ELSE IF CandidateResult(resps[c]) # Missing
       THEN [value |-> CandidateResult(resps[c]),
             requests |-> reqs \o CandidateRequests(resps[c], c)]
       ELSE LegacyReadmeFrom(resps, c + 1, reqs \o CandidateRequests(resps[c], c))

LegacyReadme(resps) == LegacyReadmeFrom(resps, 1, <<>>)

\* --------------------------------------------------------------- state
VARIABLES
  impl,          \* "core": app/core/searcher.py, "legacy": github_api_searcher.py
  entry,         \* what is run: "init", "search", "readme" (the searcher called
                 \* directly, as the tests do), "twin" (the search of both
                 \* searchers), "route", "cli"; a workload of the service
  token,         \* whether GITHUB_TOKEN is configured
  limit,         \* the limit of the request or call
  route,         \* the endpoint of a "route" run ("post", "query", "simple",
                 \* "noreadme", "health"), the mode of a "cli" run ("readme",
                 \* "noreadme"), "none" for a direct call
  token_arg,     \* the github_token argument of a constructor called directly
  github_token,  \* self.github_token, NoToken before the constructor has run
  health,        \* the HealthResponse of GET /health, NoHealth before it
  pc,            \* the position of the run
  session,       \* self.session: "none", "open", "closed"
  authorization, \* the Authorization header of the session, NoHeader without one
  all_repos,     \* search_repositories: the raw items accumulated
  page,          \* search_repositories: the next page number
  per_page,      \* search_repositories: the page size
  page_log,      \* the search requests issued so far, with what came back
  repositories,  \* the RepositoryInfo list
  found,         \* the list as search_repositories returned it
  tasks,         \* search_and_get_readmes: the (repo, task) pairs created
  idx,           \* search_and_get_readmes: the task being awaited
  fetched,       \* the records whose get_readme_content has run, in order
  in_flight,     \* the records whose get_readme_content has begun and not ended
  readme_log,    \* the calls of get_readme_content that ended: the record asked
                 \* for, what the call gave, the record it was assigned to
  readme_requests, \* the requests the last get_readme_content issued
  readme_resp,   \* the last response of the README endpoint
  readme_result, \* what a direct call of get_readme_content returned
  error,         \* the exception that escaped, "none" if none did
  http_status,   \* the status of the route's answer, 0 before it
  http_detail,   \* the detail of the route's HTTPException
  exit_code,     \* the exit code of the command line tool, -1 before it ends
  stats,         \* _search_stats of app/api/routes.py
  search_calls,  \* the number of calls of search_repositories
  upstream,      \* what the upstream answers to the search requests, page by page
  first_found,   \* what the first of two calls of search_repositories returned
  first_log,     \* the search requests the first of two calls issued
  handlers,      \* the service: the request each handler slot is serving
  served,        \* the service: the number of search and health requests received
  completed      \* the service: the searches that returned to their handler, and
                 \* the number of records they returned

vars ==
  <<impl, entry, token, limit, route, token_arg, github_token, health, pc, session,
    authorization, all_repos, page, per_page, page_log,
    repositories, found, tasks, idx, fetched, in_flight, readme_log, readme_requests,
    readme_resp, readme_result, error, http_status, http_detail, exit_code, stats, search_calls, upstream,
    first_found, first_log, handlers, served, completed>>

searchVars ==
  <<all_repos, page, per_page, page_log, search_calls, upstream, first_found, first_log>>
enrichVars ==
  <<tasks, idx, fetched, in_flight, readme_log, readme_requests, readme_resp, readme_result>>
callerVars == <<http_status, http_detail, exit_code, stats, health>>
inputVars == <<impl, entry, token, limit, route, token_arg>>
serviceVars == <<handlers, served, completed>>
selfVars == <<session, authorization, github_token>>

Domain == "test"

\* The larger limits: the page size is 100 from limit 50 on,
\* two pages are needed from 51 on, three from 101 on, and 151 needs more
\* than three full pages hold.
PagingLimits == {50, 51, 100, 101, 150, 151}

\* The larger limits of the runs that call both searchers: with 101 the
\* list returned takes a record of the second page.
TwinLimits == {101}

\* The limits of a request that Field(ge=1, le=100) rejects.
OutOfRangeLimits == {0, 101}

\* Field(default=5, ge=1, le=100) and Query(default=5, ge=1, le=100).
LimitGe == 1
LimitLe == 100
LimitValid(l) == l >= LimitGe /\ l <= LimitLe

\* Whether the limit of a request to route r is validated before the
\* searcher is called.  app/api/routes.py declares Query(ge=1, le=100) on
\* its three GET routes and takes a SearchRequest body for POST /search.
\* api_server_direct.py takes a SearchRequest body for POST /search, builds
\* a SearchRequest in GET /search and GET /search/{domain}, and hands the
\* plain int of GET /search/{domain}/no-readme to the searcher.
Validates(which, r) == which = "core" \/ r \in {"post", "query", "simple"}

\* The status that answers a rejected limit: 422 when the framework
\* validates the request, 500 when the handler's own SearchRequest(...)
\* raises, outside any try block.
RejectStatus(which, r) ==
  IF which = "legacy" /\ r \in {"query", "simple"} THEN 500 ELSE 422

\* Tokens: no token at all (None), the empty string, the token of the
\* tests' fixture, the token of the environment.
NoToken == "None"
TestToken == "test_token"
EnvToken == "env-token"
TokenTruthy(t) == t \notin {NoToken, ""}

\* settings.GITHUB_TOKEN / os.getenv('GITHUB_TOKEN').
SettingsToken == IF token THEN EnvToken ELSE NoToken

\* NewSearcher that never looks at the settings.
NewSearcherArgOnly(which, arg, settings_token) ==
  IF which = "core" /\ ~TokenTruthy(arg) THEN Raised(TokenError) ELSE Returned(arg)

\* NewSearcher without the check of the token.
NewSearcherUnchecked(which, arg, settings_token) ==
  IF which = "core" /\ ~TokenTruthy(arg) THEN Returned(settings_token) ELSE Returned(arg)

\* __init__: the token stored in self.github_token, or the ValueError.
\* app/core/searcher.py falls back on settings.GITHUB_TOKEN and raises when
\* neither is set; github_api_searcher.py stores its argument.
NewSearcher(which, arg, settings_token) ==
  IF which = "core"
  THEN IF TokenTruthy(arg) THEN Returned(arg)
       ELSE IF TokenTruthy(settings_token) THEN Returned(settings_token)
       ELSE Raised(TokenError)
  ELSE Returned(arg)

\* _search_stats when the module is loaded.  The dict searched_domains is a
\* sequence of (domain, count) pairs in the order of insertion, the order a
\* Python dict keeps.
NoStats == [total_searches |-> 0, total_repositories_found |-> 0, searched_domains |-> <<>>]

HasDomain(sd, d) == \E i \in 1..Len(sd) : sd[i].domain = d

\* searched_domains.get(d, 0)
DictCount(sd, d) ==
  IF HasDomain(sd, d) THEN sd[CHOOSE i \in 1..Len(sd) : sd[i].domain = d].count ELSE 0

\* searched_domains[d] = c: a key already there keeps its place, a new key
\* comes last.
DictSet(sd, d, c) ==
  IF HasDomain(sd, d)
  THEN [i \in 1..Len(sd) |-> IF sd[i].domain = d THEN [domain |-> d, count |-> c] ELSE sd[i]]
  ELSE Append(sd, [domain |-> d, count |-> c])

\* __aenter__: the Authorization header of the session, f'token {token}'.
NoHeader == <<>>
AuthHeader(tok) == <<"token", tok>>

\* AExit with the session left as it is.
AExitNoClose(s) == s

\* __aexit__: `if self.session: await self.session.close()`, on every way
\* out of the `async with` block.
AExit(s) == IF s # "none" THEN "closed" ELSE s

NoHealth == [status |-> "none", api_connected |-> FALSE, github_token_configured |-> FALSE]

Runs ==
  {[impl |-> i, entry |-> e] :
     i \in {"core", "legacy"}, e \in {"init", "search", "twin", "readme", "route"}}
  \cup {[impl |-> "legacy", entry |-> "cli"]}

Routes(e) ==
  CASE e = "route" -> {"post", "query", "simple", "noreadme", "health"}
    [] e = "cli" -> {"readme", "noreadme"}
    [] OTHER -> {"none"}

\* The limits of a run.  The search called directly takes the limits up to
\* MaxLimit and PagingLimits (TwinLimits when both searchers are called);
\* POST /search and the command line tool with READMEs take the limits up
\* to MaxLimit; the other routes take limit 1; every search route also
\* takes the limits out of range.  The health check searches with limit=1.
Limits(e, r) ==
  CASE e = "search" -> (1..MaxLimit) \cup PagingLimits
    [] e = "twin" -> (1..MaxLimit) \cup TwinLimits
    [] e = "route" /\ r = "post" -> (1..MaxLimit) \cup OutOfRangeLimits
    [] e = "route" /\ r \in {"query", "simple", "noreadme"} -> {1} \cup OutOfRangeLimits
    [] e = "cli" /\ r = "readme" -> 1..MaxLimit
    [] OTHER -> {1}

\* The handler slots of the service: two requests can be in progress at a
\* time, each suspended at an await while the other runs.
Handlers == {1, 2}

NoOutcome == [raised |-> FALSE, n |-> 0, invalid |-> FALSE]
NoResponse == [total_searches |-> 0, total_repositories_found |-> 0,
               average_repositories_per_search |-> 0, most_searched_domains |-> <<>>]

\* A handler slot: pc is "idle", "searching" (suspended at the await of the
\* searcher's call), "respond" (the call has ended), "answered".
HandlerState(p, r, d, l, o, st, resp) ==
  [pc |-> p, route |-> r, domain |-> d, limit |-> l, outcome |-> o, status |-> st,
   response |-> resp]

IdleHandler == HandlerState("idle", "none", 0, 0, NoOutcome, 0, NoResponse)

\* The state before anything has run.
Fresh ==
  /\ github_token = NoToken
  /\ health = NoHealth
  /\ pc = "start"
  /\ session = "none"
  /\ authorization = NoHeader
  /\ all_repos = <<>>
  /\ page = 0
  /\ per_page = 0
  /\ page_log = <<>>
  /\ repositories = <<>>
  /\ found = <<>>
  /\ tasks = <<>>
  /\ idx = 0
  /\ fetched = <<>>
  /\ in_flight = {}
  /\ readme_log = <<>>
  /\ readme_requests = <<>>
  /\ readme_resp = [kind |-> "none", body |-> NoBody]
  /\ readme_result = Missing
  /\ error = "none"
  /\ http_status = 0
  /\ http_detail = "none"
  /\ exit_code = -1
  /\ stats = NoStats
  /\ search_calls = 0
  /\ upstream = <<>>
  /\ first_found = <<>>
  /\ first_log = <<>>
  /\ handlers = [h \in Handlers |-> IdleHandler]
  /\ served = 0
  /\ completed = [searches |-> 0, records |-> 0]

\* A run: a searcher and an entry point, with or without a token in the
\* environment (the direct calls pass their own), and a limit.
Init ==
  /\ \E r \in Runs : impl = r.impl /\ entry = r.entry
  /\ token \in BOOLEAN
  /\ (~token => entry \in {"init", "route", "cli"})
  /\ route \in Routes(entry)
  /\ limit \in Limits(entry, route)
  /\ token_arg \in (CASE entry = "init" -> {NoToken, "", TestToken}
                      [] entry \in {"search", "twin", "readme"} -> {TestToken}
                      [] OTHER -> {NoToken})
  /\ Fresh

\* ------------------------------------------------------------- callers
\* GitHubAPISearcher(token) alone, as test_init_with_token and
\* test_init_without_token call it: no session is created.
TestInit ==
  /\ pc = "start"
  /\ entry = "init"
  /\ LET out == NewSearcher(impl, token_arg, SettingsToken)
     IN /\ github_token' = IF out.raised THEN github_token ELSE out.v
        /\ error' = out.error
        /\ pc' = "done"
  /\ UNCHANGED <<inputVars, serviceVars, session, authorization, searchVars, repositories, found, enrichVars,
                 callerVars>>

\* A direct call inside `async with searcher`, as tests/test_searcher.py
\* makes it: __aenter__ creates the session.
TestStart ==
  /\ pc = "start"
  /\ entry \in {"search", "twin", "readme"}
  /\ LET out == NewSearcher(impl, token_arg, SettingsToken)
     IN /\ github_token' = out.v
        /\ session' = "open"
        /\ authorization' = AuthHeader(out.v)
  /\ pc' = IF entry = "readme" THEN "readme" ELSE "search"
  /\ idx' = 1
  /\ UNCHANGED <<inputVars, serviceVars, searchVars, repositories, found, tasks, fetched, in_flight,
                 readme_log, readme_requests, readme_resp, readme_result, error, callerVars>>

\* The argument the callers of the two servers and of the command line tool
\* give the constructor: routes.py gives none, the others the token of the
\* environment.
CallerToken == IF impl = "core" THEN NoToken ELSE SettingsToken

\* A search route up to the call of the searcher: the validation of the
\* limit, then the token.  routes.py constructs the searcher inside the try
\* block (no token: ValueError, so 500); api_server_direct.py answers 503
\* without a token.
RouteStart ==
  /\ pc = "start"
  /\ entry = "route"
  /\ route # "health"
  /\ IF Validates(impl, route) /\ ~LimitValid(limit)
     THEN /\ pc' = "done"
          /\ http_status' = RejectStatus(impl, route)
          /\ http_detail' = ValidationError
          /\ error' = IF RejectStatus(impl, route) = 500 THEN ValidationError ELSE error
          /\ UNCHANGED selfVars
     ELSE IF impl = "legacy" /\ ~TokenTruthy(SettingsToken)
     THEN /\ pc' = "done"
          /\ http_status' = 503
          /\ http_detail' = "GitHub token not configured"
          /\ UNCHANGED <<selfVars, error>>
     ELSE LET out == NewSearcher(impl, CallerToken, SettingsToken)
          IN IF out.raised
             THEN /\ pc' = "done"
                  /\ http_status' = 500
                  /\ http_detail' = out.error
                  /\ error' = out.error
                  /\ UNCHANGED selfVars
             ELSE /\ pc' = "search"
                  /\ session' = "open"
                  /\ authorization' = AuthHeader(out.v)
                  /\ github_token' = out.v
                  /\ UNCHANGED <<error, http_status, http_detail>>
  /\ UNCHANGED <<inputVars, serviceVars, searchVars, repositories, found, enrichVars, exit_code,
                 stats, health>>

\* GET /health up to the test search: without a token no searcher is made
\* and the answer is given at once.
HealthStart ==
  /\ pc = "start"
  /\ entry = "route"
  /\ route = "health"
  /\ IF TokenTruthy(SettingsToken)
     THEN LET out == NewSearcher(impl, CallerToken, SettingsToken)
          IN /\ pc' = "search"
             /\ session' = "open"
             /\ authorization' = AuthHeader(out.v)
             /\ github_token' = out.v
             /\ UNCHANGED <<health, http_status>>
     ELSE /\ pc' = "done"
          /\ health' = [status |-> "unhealthy", api_connected |-> FALSE,
                        github_token_configured |-> FALSE]
          /\ http_status' = 200
          /\ UNCHANGED selfVars
  /\ UNCHANGED <<inputVars, serviceVars, searchVars, repositories, found, enrichVars, error,
                 http_detail, exit_code, stats>>

\* main of cli_api.py up to the call of the searcher.
CliStart ==
  /\ pc = "start"
  /\ entry = "cli"
  /\ IF TokenTruthy(SettingsToken)
     THEN /\ session' = "open"
          /\ authorization' = AuthHeader(NewSearcher(impl, CallerToken, SettingsToken).v)
          /\ github_token' = NewSearcher(impl, CallerToken, SettingsToken).v
          /\ pc' = "search"
          /\ UNCHANGED exit_code
     ELSE /\ pc' = "done"
          /\ exit_code' = 1
          /\ UNCHANGED selfVars
  /\ UNCHANGED <<inputVars, serviceVars, searchVars, repositories, found, enrichVars, error,
                 http_status, http_detail, stats, health>>

\* ------------------------------------------------ search_repositories
\* LoopCond without the cap of three pages.
LoopCondNoPageCap == Len(all_repos) < limit * 2

\* The condition of the while loop.
LoopCond == Len(all_repos) < limit * 2 /\ page <= MaxPages

\* NewAllRepos with the list kept from one call to the next.
KeptAllRepos(old) == old

\* all_repos = []: the list of a call starts empty, whatever an earlier call
\* accumulated.
NewAllRepos(old) == <<>>

\* PerPage with the limit itself as the page size.
PerPageLimit(lim) == Min(MaxPerPage, lim)

\* per_page = min(100, limit * 2)
PerPage(lim) == Min(MaxPerPage, lim * 2)

\* The code before the loop.
SearchRepositoriesEnter ==
  /\ pc = "search"
  /\ all_repos' = NewAllRepos(all_repos)
  /\ page' = 1
  /\ per_page' = PerPage(limit)
  /\ search_calls' = search_calls + 1
  /\ pc' = "loop"
  /\ UNCHANGED <<inputVars, serviceVars, selfVars, page_log, upstream, first_found, first_log,
                 repositories,
                 found, enrichVars, error, callerVars>>

\* PageOutcome with a failed page skipped instead of ending the loop.
PageOutcomeContinue(resp, pp) ==
  IF resp.kind \in {"ok", "noitems"}
  THEN [items |-> resp.items, stop |-> Len(resp.items) < pp, raised |-> FALSE]
  ELSE [items |-> <<>>, stop |-> FALSE, raised |-> FALSE]

\* PageOutcome with the failure of a page raised to the caller.
PageOutcomeRaises(resp, pp) ==
  IF resp.kind \in {"ok", "noitems"}
  THEN [items |-> resp.items, stop |-> Len(resp.items) < pp, raised |-> FALSE]
  ELSE [items |-> <<>>, stop |-> TRUE, raised |-> TRUE]

\* The body of the loop for one response: the items it adds, whether it
\* leaves the loop (break), and whether an exception escapes it.  A status
\* other than 200 breaks; every exception of the try block (transport,
\* response.json()) is caught and breaks; a page shorter than the page
\* size breaks after its items are added.
PageOutcome(resp, pp) ==
  IF resp.kind \in {"ok", "noitems"}
  THEN [items |-> resp.items, stop |-> Len(resp.items) < pp, raised |-> FALSE]
  ELSE [items |-> <<>>, stop |-> TRUE, raised |-> FALSE]

\* NextPage with the same page asked for again.
NextPageAgain(p) == p

\* page += 1, at the end of a turn of the loop that did not break.
NextPage(p) == p + 1

\* What the upstream can answer to the request of a page: anything the
\* first time the page is asked for, the same again afterwards.
UpstreamResponses ==
  IF page <= Len(upstream) THEN {upstream[page]} ELSE PageResponses(page, per_page, limit)

\* One turn of the loop: the request of a page and what is done with the
\* response.
SearchRepositoriesPage ==
  /\ pc = "loop"
  /\ LoopCond
  /\ \E resp \in UpstreamResponses :
       /\ upstream' = IF page <= Len(upstream) THEN upstream ELSE Append(upstream, resp)
       /\ page_log' = Append(page_log, [page |-> page, per_page |-> per_page,
                                        kind |-> resp.kind, n |-> Len(resp.items)])
       /\ all_repos' = all_repos \o PageOutcome(resp, per_page).items
       /\ IF PageOutcome(resp, per_page).raised
          THEN pc' = "raised" /\ error' = ClientError /\ page' = page
          ELSE IF PageOutcome(resp, per_page).stop
               THEN pc' = "break" /\ page' = page /\ error' = error
               ELSE pc' = "loop" /\ page' = NextPage(page) /\ error' = error
  /\ UNCHANGED <<inputVars, serviceVars, selfVars, per_page, search_calls, first_found, first_log,
                 repositories,
                 found, enrichVars, callerVars>>

\* Whether the run calls search_and_get_readmes (or, if not, the search
\* alone): the routes and the command line tool do, but for the no-readme
\* route and mode and for the health check.
WithReadmes == entry \in {"route", "cli"} /\ route \notin {"noreadme", "health"}

\* The code after the loop: conversion (and, in the legacy searcher, the
\* sort), truncation and return; a KeyError of the conversion escapes.
SearchRepositoriesReturn ==
  /\ IF pc = "loop" THEN ~LoopCond ELSE pc = "break"
  /\ LET out == IF impl = "core" THEN CoreRepositoryInfos(all_repos, limit)
                ELSE LegacyRepositoryInfos(all_repos, limit)
     IN IF out.raised
        THEN /\ error' = out.error
             /\ pc' = "raised"
             /\ UNCHANGED <<repositories, found>>
        ELSE /\ repositories' = out.v
             /\ found' = out.v
             /\ pc' = IF WithReadmes THEN "tasks" ELSE "returned"
             /\ error' = error
  /\ UNCHANGED <<inputVars, serviceVars, selfVars, searchVars, enrichVars, callerVars>>

\* ---------------------------------------------- search_and_get_readmes
\* ReadmeTasks with one task per owner only: the records of an owner already
\* seen get none.
ReadmeTasksPerOwner(repos) ==
  IF \E i \in 1..Len(repos) : Len(SplitFirst(repos[i].full_name.v, Slash)) # 2
  THEN Raised(UnpackError)
  ELSE Returned(
         SelectSeq([i \in 1..Len(repos) |->
                      [rec |-> i,
                       owner |-> SplitFirst(repos[i].full_name.v, Slash)[1],
                       repo_name |-> SplitFirst(repos[i].full_name.v, Slash)[2]]],
                   LAMBDA t : \A j \in 1..(t.rec - 1) :
                     SplitFirst(repos[j].full_name.v, Slash)[1] # t.owner))

\* The first loop: full_name is split and one task per record is created
\* (a coroutine, which runs only when it is awaited).  Unpacking a split
\* that has no second part raises ValueError, outside any try block.
ReadmeTasks(repos) ==
  IF \E i \in 1..Len(repos) : Len(SplitFirst(repos[i].full_name.v, Slash)) # 2
  THEN Raised(UnpackError)
  ELSE Returned([i \in 1..Len(repos) |->
                   [rec |-> i,
                    owner |-> SplitFirst(repos[i].full_name.v, Slash)[1],
                    repo_name |-> SplitFirst(repos[i].full_name.v, Slash)[2]]])

SearchAndGetReadmesTasks ==
  /\ pc = "tasks"
  /\ LET out == ReadmeTasks(repositories)
     IN IF out.raised
        THEN /\ error' = out.error
             /\ pc' = "raised"
             /\ UNCHANGED <<tasks, idx>>
        ELSE /\ tasks' = out.v
             /\ idx' = 1
             /\ pc' = IF Len(out.v) = 0 THEN "returned" ELSE "readme"
             /\ error' = error
  /\ UNCHANGED <<inputVars, serviceVars, selfVars, searchVars, repositories, found, fetched, in_flight,
                 readme_log, readme_requests, readme_resp, readme_result, callerVars>>

\* Target with every result assigned to the first record of the list.
TargetFirst(ts, i) == ts[1].rec

\* `for repo, task in tasks`: the record a task's result is assigned to is
\* the record the task was made for.
Target(ts, i) == ts[i].rec

\* What becomes of the outcome of get_readme_content.  A direct call hands
\* it to its caller.  The second loop of search_and_get_readmes assigns it
\* to the record of the task, None if the task raised, and goes on to the
\* next task; after the last one the list is returned.
AssignReadme(value) ==
  IF entry = "readme"
  THEN /\ readme_result' = value
       /\ pc' = IF value = Exc THEN "raised" ELSE "returned"
       /\ error' = IF value = Exc THEN ClientError ELSE error
       /\ readme_log' = Append(readme_log, [rec |-> 1, value |-> value, target |-> 0])
       /\ UNCHANGED <<repositories, idx>>
  ELSE /\ repositories' =
            [repositories EXCEPT ![Target(tasks, idx)].readme_content =
                                    IF value = Exc THEN None ELSE value]
       /\ readme_log' = Append(readme_log, [rec |-> tasks[idx].rec, value |-> value,
                                            target |-> Target(tasks, idx)])
       /\ idx' = idx + 1
       /\ pc' = IF idx = Len(tasks) THEN "returned" ELSE "readme"
       /\ UNCHANGED <<readme_result, error>>

\* The record whose README the running get_readme_content is asked for.
CurrentRecord == IF entry = "readme" THEN 1 ELSE tasks[idx].rec

\* Started with every coroutine not yet awaited begun at the first await, as
\* asyncio.gather or create_task would begin them.
StartedTogether(ts, i) == {ts[k].rec : k \in i..Len(ts)}

\* The calls of get_readme_content that begin to run when task i is
\* awaited.  self.get_readme_content(owner, repo_name) makes a coroutine
\* object; nothing of its body runs before `await task`, so awaiting task i
\* begins the call of that record alone.
Started(ts, i) == {ts[i].rec}

\* `await task` (or the direct call) up to the first request of
\* get_readme_content: the call is running, its request is in flight.
GetReadmeContentBegin ==
  /\ pc = "readme"
  /\ in_flight' = in_flight \cup (IF entry = "readme" THEN {1} ELSE Started(tasks, idx))
  /\ pc' = "await_readme"
  /\ UNCHANGED <<inputVars, serviceVars, selfVars, searchVars, repositories, found, tasks, idx, fetched,
                 readme_log, readme_requests, readme_resp, readme_result, error, callerVars>>

\* get_readme_content of app/core/searcher.py, awaited by the second loop
\* or called directly: one GET of the readme endpoint.
GetReadmeContent ==
  /\ pc = "await_readme"
  /\ impl = "core"
  /\ \E resp \in (IF entry = "readme" THEN ReadmeResponses ELSE EnrichReadmeResponses) :
       /\ readme_requests' = <<Request("readme", 0, resp.kind, FALSE, EmptyText)>>
       /\ readme_resp' = resp
       /\ AssignReadme(ReadmeResult(resp))
  /\ fetched' = Append(fetched, CurrentRecord)
  /\ in_flight' = in_flight \ {CurrentRecord}
  /\ UNCHANGED <<inputVars, serviceVars, selfVars, searchVars, found, tasks, callerVars>>

\* get_readme_content of github_api_searcher.py, awaited by the second loop
\* or called directly: the loop over the candidate files.
GetReadmeContentLegacy ==
  /\ pc = "await_readme"
  /\ impl = "legacy"
  /\ \E resps \in (IF entry = "readme" THEN [1..Len(ReadmeFiles) -> CandidateResponses]
                   ELSE EnrichCandidateSeqs) :
       /\ readme_requests' = LegacyReadme(resps).requests
       /\ AssignReadme(LegacyReadme(resps).value)
  /\ fetched' = Append(fetched, CurrentRecord)
  /\ in_flight' = in_flight \ {CurrentRecord}
  /\ UNCHANGED <<inputVars, serviceVars, selfVars, searchVars, found, tasks, readme_resp, callerVars>>

\* ----------------------------------------------------- callers' ends
\* RepositoryResponse declares description and language as str: a record
\* whose description or language is None fails its validation.
ValidationErrorIn(repos) ==
  \E i \in 1..Len(repos) : repos[i].description = None \/ repos[i].language = None

\* Whether the route builds RepositoryResponse models of the records: POST
\* /search does, and so does every route of api_server_direct.py; the GET
\* routes of routes.py answer with plain dicts.
BuildsResponseModels(which, r) == which = "legacy" \/ r = "post"

\* UpdatedStats with the search not counted.
UpdatedStatsUncounted(which, st, d, n) ==
  [total_searches |-> st.total_searches,
   total_repositories_found |-> st.total_repositories_found + n,
   searched_domains |-> DictSet(st.searched_domains, d, DictCount(st.searched_domains, d) + 1)]

\* UpdatedStats with the domain's count set to 0 when the domain is new.
UpdatedStatsFromZero(which, st, d, n) ==
  [total_searches |-> st.total_searches + 1,
   total_repositories_found |-> st.total_repositories_found + n,
   searched_domains |-> DictSet(st.searched_domains, d, DictCount(st.searched_domains, d))]

\* _search_stats after a search that returned n records; api_server_direct.py
\* keeps no statistics.
UpdatedStats(which, st, d, n) ==
  IF which = "core"
  THEN [total_searches |-> st.total_searches + 1,
        total_repositories_found |-> st.total_repositories_found + n,
        searched_domains |-> DictSet(st.searched_domains, d, DictCount(st.searched_domains, d) + 1)]
  ELSE st

\* A search route after the searcher's call: the statistics, the response,
\* and the except clause that turns every exception into a 500 carrying its
\* message.  __aexit__ closes the session.
RouteRespond ==
  /\ entry = "route"
  /\ route # "health"
  /\ pc \in {"returned", "raised"}
  /\ session' = AExit(session)
  /\ pc' = "done"
  /\ IF pc = "returned"
     THEN /\ stats' = UpdatedStats(impl, stats, Domain, Len(repositories))
          /\ IF BuildsResponseModels(impl, route) /\ ValidationErrorIn(repositories)
             THEN /\ http_status' = 500
                  /\ http_detail' = ValidationError
                  /\ error' = ValidationError
             ELSE /\ http_status' = 200
                  /\ UNCHANGED <<http_detail, error>>
     ELSE /\ http_status' = 500
          /\ http_detail' = error
          /\ UNCHANGED <<stats, error>>
  /\ UNCHANGED <<inputVars, serviceVars, authorization, github_token, searchVars, repositories, found,
                 enrichVars, exit_code, health>>

\* api_connected of GET /health with a token: True once the test search has
\* returned, False when an exception came out of it.
ApiConnected(returned) == returned

\* GET /health after the test search.
HealthRespond ==
  /\ entry = "route"
  /\ route = "health"
  /\ pc \in {"returned", "raised"}
  /\ session' = AExit(session)
  /\ pc' = "done"
  /\ health' = [status |-> "healthy", api_connected |-> ApiConnected(pc = "returned"),
                github_token_configured |-> TRUE]
  /\ http_status' = 200
  /\ UNCHANGED <<inputVars, serviceVars, authorization, github_token, searchVars, repositories, found,
                 enrichVars, error, http_detail, exit_code, stats>>

\* ExitCode with the except clause ending normally.
ExitCodeZero(returned) == 0

\* The exit code of main of cli_api.py after the searcher's call: 0 at the
\* normal end, 1 from the except clause (sys.exit(1)).
ExitCode(returned) == IF returned THEN 0 ELSE 1

\* main of cli_api.py after the searcher's call: display_results and a
\* normal end, or the except clause.
CliExit ==
  /\ entry = "cli"
  /\ pc \in {"returned", "raised"}
  /\ session' = AExit(session)
  /\ pc' = "done"
  /\ exit_code' = ExitCode(pc = "returned")
  /\ UNCHANGED <<inputVars, serviceVars, authorization, github_token, searchVars, repositories, found,
                 enrichVars, error, http_status, http_detail, stats, health>>

\* A second call of search_repositories on the same searcher, with the same
\* domain and limit, against the same upstream.
SearchAgain ==
  /\ entry = "search"
  /\ pc = "returned"
  /\ search_calls = 1
  /\ first_found' = found
  /\ first_log' = page_log
  /\ page_log' = <<>>
  /\ pc' = "search"
  /\ UNCHANGED <<inputVars, serviceVars, selfVars, all_repos, page, per_page, search_calls, upstream,
                 repositories, found, enrichVars, error, callerVars>>

Other(which) == IF which = "core" THEN "legacy" ELSE "core"

\* After a call of search_repositories of one searcher, the call of
\* search_repositories of the other, with the same domain and limit, against
\* the same upstream.
SearchTwin ==
  /\ entry = "twin"
  /\ pc = "returned"
  /\ search_calls = 1
  /\ impl' = Other(impl)
  /\ first_found' = found
  /\ first_log' = page_log
  /\ page_log' = <<>>
  /\ pc' = "search"
  /\ UNCHANGED <<entry, token, limit, route, token_arg, serviceVars, selfVars, all_repos, page,
                 per_page, search_calls, upstream, repositories, found, enrichVars, error,
                 callerVars>>

\* The end of the `async with` block of a direct call.
TestEnd ==
  /\ entry \in {"search", "twin", "readme"}
  /\ pc \in {"returned", "raised"}
  /\ session' = AExit(session)
  /\ pc' = "done"
  /\ UNCHANGED <<inputVars, serviceVars, authorization, github_token, searchVars, repositories, found,
                 enrichVars, error, callerVars>>

Next ==
  \/ TestInit
  \/ TestStart
  \/ RouteStart
  \/ HealthStart
  \/ CliStart
  \/ SearchRepositoriesEnter
  \/ SearchRepositoriesPage
  \/ SearchRepositoriesReturn
  \/ SearchAndGetReadmesTasks
  \/ GetReadmeContentBegin
  \/ GetReadmeContent
  \/ GetReadmeContentLegacy
  \/ RouteRespond
  \/ HealthRespond
  \/ CliExit
  \/ SearchAgain
  \/ SearchTwin
  \/ TestEnd

Spec == Init /\ [][Next]_vars

\* The runs of search_and_get_readmes with the limits 1 and 2, and the runs
\* of the search alone with a limit that needs more than three pages.
FairLimits == {1, 2}
LongLimits == {151}

FairInit ==
  /\ Init
  /\ IF WithReadmes THEN limit \in FairLimits
     ELSE entry = "search" /\ limit \in LongLimits

FairNext ==
  \/ TestStart
  \/ RouteStart
  \/ CliStart
  \/ SearchRepositoriesEnter
  \/ SearchRepositoriesPage
  \/ SearchRepositoriesReturn
  \/ SearchAndGetReadmesTasks
  \/ GetReadmeContentBegin
  \/ GetReadmeContent
  \/ GetReadmeContentLegacy
  \/ RouteRespond
  \/ CliExit
  \/ TestEnd

\* A run is one coroutine on the event loop: each await is answered (the
\* session's requests end with a response or an exception), so a step that
\* can be taken is taken.
FairSpec == FairInit /\ [][FairNext]_vars /\ WF_vars(FairNext)

\* ------------------------------------------------------------ service
\* The routes of app/api/routes.py as one process: _search_stats lives as
\* long as the process, and the handlers are coroutines of one event loop,
\* so a handler runs without interruption from one await to the next.
MaxRequests == 3
MaxLongRequests == 12
MaxDomains == 11
MaxCount == 2

\* sorted_domains[:10]
TopCount == 10

\* The workloads: "burst", a few requests of every kind with small limits,
\* two at a time; "full", a few searches with the largest limit, one after
\* the other; "long", many searches with limit 1, one after the other,
\* enough for more than ten domains.
Workloads == {"burst", "full", "long"}

RequestBound == IF entry = "long" THEN MaxLongRequests ELSE MaxRequests

ServiceRoutes ==
  CASE entry = "burst" -> {"post", "query", "simple", "noreadme", "health"}
    [] entry = "full" -> {"post", "noreadme"}
    [] OTHER -> {"simple"}

\* The domains of a request.  In the burst POST /search is for either of
\* two terms, the GET routes for the first.  Domain k of the long workload
\* is the k-th distinct search term the service receives: a request is for
\* a term already searched, fewer than MaxCount times, or for the next new
\* one.
RequestDomains(r) ==
  CASE r = "health" -> {0}
    [] entry = "burst" -> IF r = "post" THEN {1, 2} ELSE {1}
    [] entry = "full" -> {1}
    [] OTHER -> {d \in 1..Min(MaxDomains, Len(stats.searched_domains) + 1) :
                   DictCount(stats.searched_domains, d) < MaxCount}

ServiceLimits(r) ==
  CASE r = "health" -> {1}
    [] entry = "full" -> {LimitLe}
    [] r = "post" /\ entry = "burst" -> {1, MaxLimit} \cup OutOfRangeLimits
    [] OTHER -> {1}

ServicePage(p, pp, n, bad, shape) ==
  [kind |-> "ok", items |-> PageItems(p, pp, n, <<>>, bad, shape, 0)]

PageFails == [kind |-> "exc", items |-> <<>>]

\* What the upstream answers to the pages 1..3 of a handler's search: full
\* pages; pages one item short; and, in the burst, empty pages, failures,
\* or pages whose first item has null for description and language, or no
\* name, or no slash in full_name.  The long workload meets full pages
\* only.
ServiceUpstreams(lim) ==
  LET pp == PerPage(lim)
  IN {[p \in 1..MaxPages |-> ServicePage(p, pp, pp, 0, "ok")]}
     \cup (IF entry \in {"burst", "full"}
           THEN {[p \in 1..MaxPages |-> ServicePage(p, pp, pp - 1, 0, "ok")]}
           ELSE {})
     \cup (IF entry = "burst"
           THEN {[p \in 1..MaxPages |-> ServicePage(p, pp, 0, 0, "ok")],
                 [p \in 1..MaxPages |-> PageFails]}
                \cup {[p \in 1..MaxPages |-> ServicePage(p, pp, pp, 1, shape)] :
                        shape \in {"null_opt", "no_name", "no_slash"}}
           ELSE {})

\* The loop of search_repositories against the pages ups, from page p with
\* acc accumulated: the raw items accumulated when the loop ends.
RECURSIVE SearchLoop(_, _, _, _)
SearchLoop(lim, ups, p, acc) ==
  IF ~(Len(acc) < lim * 2 /\ p <= MaxPages) THEN acc
  ELSE LET o == PageOutcome(ups[p], PerPage(lim))
       IN IF o.stop THEN acc \o o.items
          ELSE SearchLoop(lim, ups, NextPage(p), acc \o o.items)

\* What the searcher's call of a handler comes to against the pages ups:
\* whether an exception escaped it, the number of records returned, and
\* whether a record fails the validation of the response model.  The README
\* contents have no part in it.
ServiceOutcome(r, lim, ups) ==
  LET out == CoreRepositoryInfos(SearchLoop(lim, ups, 1, <<>>), lim)
  IN IF out.raised THEN [raised |-> TRUE, n |-> 0, invalid |-> FALSE]
     ELSE IF r \in {"post", "query", "simple"} /\ ReadmeTasks(out.v).raised
     THEN [raised |-> TRUE, n |-> 0, invalid |-> FALSE]
     ELSE [raised |-> FALSE, n |-> Len(out.v),
           invalid |-> BuildsResponseModels("core", r) /\ ValidationErrorIn(out.v)]

\* The state of the process before any request, GITHUB_TOKEN configured.
ServiceInit ==
  /\ impl = "core"
  /\ entry \in Workloads
  /\ token = TRUE
  /\ route = "none"
  /\ limit = 1
  /\ token_arg = NoToken
  /\ Fresh

runVars ==
  <<inputVars, selfVars, pc, searchVars, repositories, found, enrichVars, error, http_status,
    http_detail, exit_code, health>>

SlotFree(h) == handlers[h].pc \in {"idle", "answered"} /\ (entry # "burst" => h = 1)

\* The slot of a handler that has answered: the status of the answer is
\* what is left of the request.
Answered(st) == HandlerState("answered", "none", 0, 0, NoOutcome, st, NoResponse)

\* A search or health request is received.  The framework answers 422 to a
\* limit out of range before the handler runs; the handler runs up to the
\* await of the searcher's call.
ServiceReceive(h) ==
  /\ SlotFree(h)
  /\ served < RequestBound
  /\ served' = served + 1
  /\ \E r \in ServiceRoutes :
       \E d \in RequestDomains(r), l \in ServiceLimits(r) :
         handlers' = [handlers EXCEPT ![h] =
                        IF ~LimitValid(l)
                        THEN Answered(422)
                        ELSE HandlerState("searching", r, d, l, NoOutcome, 0, NoResponse)]
  /\ UNCHANGED <<runVars, stats, completed>>

\* The searcher's call of a handler ends: it returns its list or raises.
ServiceSearch(h) ==
  /\ handlers[h].pc = "searching"
  /\ \E ups \in ServiceUpstreams(handlers[h].limit) :
       LET o == ServiceOutcome(handlers[h].route, handlers[h].limit, ups)
       IN /\ handlers' = [handlers EXCEPT ![h].pc = "respond", ![h].outcome = o]
          /\ completed' =
               IF o.raised \/ handlers[h].route = "health" THEN completed
               ELSE [searches |-> completed.searches + 1, records |-> completed.records + o.n]
  /\ UNCHANGED <<runVars, stats, served>>

\* The handler from the end of the searcher's call to its answer, without
\* an await: the statistics, the response, the except clause.  The health
\* check answers 200 and keeps no statistics.
ServiceRespond(h) ==
  /\ handlers[h].pc = "respond"
  /\ LET o == handlers[h].outcome
     IN IF handlers[h].route = "health"
        THEN /\ handlers' = [handlers EXCEPT ![h] = Answered(200)]
             /\ UNCHANGED stats
        ELSE IF o.raised
        THEN /\ handlers' = [handlers EXCEPT ![h] = Answered(500)]
             /\ UNCHANGED stats
        ELSE /\ stats' = UpdatedStats(impl, stats, handlers[h].domain, o.n)
             /\ handlers' = [handlers EXCEPT ![h] =
                               Answered(IF o.invalid THEN 500 ELSE 200)]
  /\ UNCHANGED <<runVars, served, completed>>

\* round(a / b, 2) in hundredths, b > 0: the nearest hundredth, the even one
\* of two equally near (for b < 16 a tie is a multiple of 1/8, which the
\* float division gives exactly).
RoundHundredths(a, b) ==
  LET q == (100 * a) \div b
      r == 2 * ((100 * a) % b)
  IN IF r < b THEN q ELSE IF r > b THEN q + 1 ELSE IF q % 2 = 0 THEN q ELSE q + 1

\* sorted(items, key=count, reverse=True): a stable sort, domains of equal
\* count keep the order of the dict.
RECURSIVE SortCounts(_, _)
SortCounts(sd, keys) ==
  IF keys = {} THEN <<>>
  ELSE SelectSeq(sd, LAMBDA e : e.count = SetMax(keys)) \o SortCounts(sd, keys \ {SetMax(keys)})

SortedDomains(sd) == SortCounts(sd, {sd[i].count : i \in 1..Len(sd)})

\* TopDomains without the sort: the first ten domains of the dict.
TopDomainsUnsorted(sd) == [i \in 1..Min(TopCount, Len(sd)) |-> sd[i].domain]

\* most_searched: the domains of sorted_domains[:10].
TopDomains(sd) == [i \in 1..Min(TopCount, Len(sd)) |-> SortedDomains(sd)[i].domain]

\* The StatsResponse of get_api_stats; the average in hundredths.
GetApiStats(st) ==
  [total_searches |-> st.total_searches,
   total_repositories_found |-> st.total_repositories_found,
   average_repositories_per_search |->
     IF st.total_searches > 0
     THEN RoundHundredths(st.total_repositories_found, st.total_searches)
     ELSE 0,
   most_searched_domains |-> TopDomains(st.searched_domains)]

\* GET /stats: the handler has no await, it runs from the request to the
\* answer in one piece.
ServiceStats(h) ==
  /\ SlotFree(h)
  /\ handlers' = [handlers EXCEPT ![h] =
                    HandlerState("answered", "stats", 0, 0, NoOutcome, 200, GetApiStats(stats))]
  /\ UNCHANGED <<runVars, stats, served, completed>>

ServiceNext ==
  \/ \E h \in Handlers : ServiceReceive(h)
  \/ \E h \in Handlers : ServiceSearch(h)
  \/ \E h \in Handlers : ServiceRespond(h)
  \/ \E h \in Handlers : ServiceStats(h)

ServiceSpec == ServiceInit /\ [][ServiceNext]_vars

\* ============================================================= claims
\* The number of items the pages 1..k of the log delivered.
RECURSIVE AccumulatedUpTo(_)
AccumulatedUpTo(k) == IF k = 0 THEN 0 ELSE page_log[k].n + AccumulatedUpTo(k - 1)

Accumulated == AccumulatedUpTo(Len(page_log))

\* The loop of search_repositories is over.
PagingOver == search_calls >= 1 /\ pc \notin {"search", "loop"}

\* search_repositories has returned (it has neither raised nor is it running).
SearchDone ==
  \/ pc \in {"returned", "tasks", "readme", "await_readme"} /\ entry # "readme"
  \/ pc \in {"raised", "done"} /\ search_calls >= 1 /\ error \notin {KeyError, ClientError}

\* search_and_get_readmes was called and has returned.
EnrichReturned == WithReadmes /\ pc = "returned"

\* A direct call of get_readme_content of app/core/searcher.py has ended.
CoreReadmeEnded == impl = "core" /\ entry = "readme" /\ pc \in {"returned", "raised", "done"}

FailedPage(e) == e.kind \in {"status", "exc", "badjson"}

\* The page an upstream item came with, from the id in its name.
PageOfRecord(r) == ((r.name.v[2] - 1) \div (per_page + 1)) + 1

\* C1: whenever search_repositories returns, the number of records is
\* min(limit, number of raw items the fetched pages delivered), so at most
\* limit.
C1_ExactCount ==
  SearchDone => Len(found) = Min(limit, Accumulated) /\ Len(found) <= limit

\* C1: a search that returned after the pages delivered more than limit items.
C1_Witness ==
  entry = "search" /\ pc = "returned" /\ limit >= 2 /\ Accumulated > limit
  /\ Len(found) = limit

\* C2: the list search_repositories returns is in non-increasing order of
\* stars, with either searcher.
C2_SortedByStars ==
  SearchDone => \A i \in 1..(Len(found) - 1) : found[i].stars.v >= found[i + 1].stars.v

\* C3: when search_and_get_readmes returns, search was called once, the
\* README fetcher ran once for each record of the search result, in order,
\* and the list returned is the search result, record for record, but for
\* the README contents.
C3_EnrichPreserves ==
  EnrichReturned =>
    /\ search_calls = 1
    /\ fetched = [i \in 1..Len(found) |-> i]
    /\ Len(repositories) = Len(found)
    /\ \A i \in 1..Len(found) : [repositories[i] EXCEPT !.readme_content = None] = found[i]

\* C3: a list of two records returned, the first fetch failed, the second not.
C3_Witness ==
  /\ EnrichReturned /\ entry = "route"
  /\ Len(found) = 2
  /\ repositories[1].readme_content = None
  /\ repositories[2].readme_content # None

\* C4: a failure tied to one record, a full_name without a slash included,
\* does not abort search_and_get_readmes: no exception of the split escapes
\* and every record of the search result has its README fetched.
C4_FailureIsolated ==
  /\ error # UnpackError
  /\ EnrichReturned => \A i \in 1..Len(found) : \E j \in 1..Len(fetched) : fetched[j] = i

\* C5: a direct call of get_readme_content (core) never raises, returns a
\* string or None, and returns None for every status other than 200; no
\* exception of a fetch ends a route's run.
C5_ReadmeNeverRaises ==
  /\ CoreReadmeEnded =>
       /\ pc # "raised" /\ error = "none"
       /\ readme_result.t \in {"null", "str"}
       /\ readme_resp.kind = "status" => readme_result = None
       /\ readme_resp.kind \in {"exc", "badjson"} => readme_result = None
  /\ (impl = "core" /\ entry = "route") => error # ClientError

\* C5: the call returned None for a status other than 200.
C5_Witness ==
  impl = "core" /\ entry = "readme" /\ pc = "returned" /\ readme_resp.kind = "status"
  /\ readme_result = None

\* Contents and the text their base64 and UTF-8 decoding gives.
DecodeVectors ==
  {<<HelloWorldB64, HelloWorld>>, <<HiB64, Hi>>, <<HiB64 \o <<10>>, Hi>>,
   <<<<119, 54, 107, 61>>, <<233>>>>, <<EmptyText, EmptyText>>}

\* C6: on a 200 response, get_readme_content (core) returns the decoded
\* text of a base64 content ("Hello World" for "SGVsbG8gV29ybGQ=") and
\* returns the content as it came for every other encoding.
C6_Base64Decoded ==
  (CoreReadmeEnded /\ readme_resp.kind = "ok") =>
    /\ \A v \in DecodeVectors :
         (readme_resp.body.encoding = JStr(Base64Text) /\ readme_resp.body.content = JStr(v[1]))
           => readme_result = JStr(v[2])
    /\ (readme_resp.body.encoding \notin {JStr(Base64Text), Missing}
        /\ readme_resp.body.content # Missing)
         => readme_result = readme_resp.body.content

\* C6: the scenario of the test: "SGVsbG8gV29ybGQ=" came back as "Hello World".
C6_Witness ==
  /\ impl = "core" /\ entry = "readme" /\ pc = "returned"
  /\ readme_resp.kind = "ok"
  /\ readme_resp.body = [content |-> JStr(HelloWorldB64), encoding |-> JStr(Base64Text)]
  /\ readme_result = JStr(HelloWorld)

UnexpectedEncoding ==
  /\ CoreReadmeEnded /\ readme_resp.kind = "ok"
  /\ readme_resp.body.encoding \notin {JStr(Base64Text), Missing}

\* C7 as claimed: a response with an encoding other than base64 gives None.
C7_UnexpectedEncodingAbsent == UnexpectedEncoding => readme_result = None

\* C7, amended: a response with an encoding other than base64 raises nothing
\* and its content is the result unchanged, the empty string when the
\* response has no content; the result is None only when the content is null.
C7_UnexpectedEncodingPassedThrough ==
  UnexpectedEncoding =>
    /\ pc # "raised" /\ error = "none"
    /\ readme_result = IF readme_resp.body.content = Missing THEN JStr(EmptyText)
                       ELSE readme_resp.body.content
    /\ readme_result = None <=> readme_resp.body.content = None

\* C7: the content "SGk=" with the encoding "none" came back as "SGk=".
C7_Witness ==
  /\ UnexpectedEncoding /\ pc = "returned"
  /\ readme_resp.body = [content |-> JStr(HiB64), encoding |-> JStr(NoneText)]
  /\ readme_result = JStr(HiB64)

\* C8: the pages are requested in order from page 1 with the page size
\* min(100, 2 * limit); a page is requested after another only if fewer than
\* three pages were fetched, fewer than 2 * limit items were accumulated and
\* the page before was full; and the loop ends after a good page only when
\* one of the three holds.
C8_Pagination ==
  /\ \A i \in 1..Len(page_log) :
       page_log[i].page = i /\ page_log[i].per_page = Min(100, 2 * limit)
  /\ \A i \in 2..Len(page_log) :
       /\ i - 1 < 3
       /\ AccumulatedUpTo(i - 1) < 2 * limit
       /\ page_log[i - 1].n >= page_log[i - 1].per_page
  /\ (PagingOver /\ limit >= 1) =>
       /\ Len(page_log) >= 1
       /\ ~FailedPage(page_log[Len(page_log)]) =>
            \/ Len(page_log) = 3
            \/ Accumulated >= 2 * limit
            \/ page_log[Len(page_log)].n < page_log[Len(page_log)].per_page

\* C8: three full pages were fetched and the cap of three pages ended the loop.
C8_Witness ==
  /\ pc = "returned" /\ Len(page_log) = 3
  /\ page_log[3].n = page_log[3].per_page
  /\ Accumulated < 2 * limit

\* C9: a failed page is the last page requested; the failure raises nothing;
\* the items accumulated are those of the pages before it, and the list
\* returned is made of them (it is empty when the first page failed).
C9_PageFailureStops ==
  /\ \A i \in 1..Len(page_log) : FailedPage(page_log[i]) => i = Len(page_log)
  /\ error # ClientError
  /\ (Len(page_log) >= 1 /\ FailedPage(page_log[Len(page_log)])) =>
       /\ Len(all_repos) = AccumulatedUpTo(Len(page_log) - 1)
       /\ pc # "break" =>
            /\ (\A i \in 1..Len(all_repos) : ~KeyErrorIn(impl, all_repos[i])) => SearchDone
            /\ SearchDone =>
                 /\ Len(found) = Min(limit, AccumulatedUpTo(Len(page_log) - 1))
                 /\ \A i \in 1..Len(found) : PageOfRecord(found[i]) < Len(page_log)
            /\ Len(page_log) = 1 => SearchDone /\ found = <<>>

\* C9: the second page failed and the search returned limit records of the first.
C9_Witness ==
  /\ pc = "returned" /\ Len(page_log) = 2 /\ page_log[2].kind = "exc"
  /\ Len(found) = limit
  /\ \A i \in 1..Len(found) : PageOfRecord(found[i]) = 1

FirstPageFailed == Len(page_log) >= 1 /\ page_log[1].kind \in {"status", "exc"}

\* C10 as claimed: when the first page of the search fails, the route
\* answers 500 and the command line tool exits with code 1.
C10_FirstPageFailureHardError ==
  /\ (entry = "route" /\ pc = "done" /\ FirstPageFailed) => http_status = 500
  /\ (entry = "cli" /\ pc = "done" /\ FirstPageFailed) => exit_code = 1

\* C10, amended: when the first page of the search fails, the search returns
\* the empty list, the route answers 200 with no repository and the command
\* line tool exits with code 0; the route answers 500, carrying the
\* exception's message, and the tool exits with code 1 (but for a missing
\* token) only when an exception escaped.
C10_FirstPageFailureEmptyResult ==
  /\ (entry = "route" /\ pc = "done" /\ FirstPageFailed) =>
       http_status = 200 /\ repositories = <<>> /\ error = "none"
  /\ (entry = "cli" /\ pc = "done" /\ FirstPageFailed) => exit_code = 0
  /\ (entry = "route" /\ http_status = 500) => error # "none" /\ http_detail = error
  /\ (entry = "cli" /\ exit_code = 1) => ~token \/ error # "none"

\* C10: the first page met a transport failure and the route answered 200.
C10_Witness ==
  /\ entry = "route" /\ pc = "done"
  /\ Len(page_log) = 1 /\ page_log[1].kind = "exc"
  /\ http_status = 200

\* A search route has answered.
SearchRouteDone == entry = "route" /\ route # "health" /\ pc = "done"

\* C11: once a search route of routes.py has answered a request, whatever
\* the answer, total_searches and the count of the request's domain have
\* gone up by one.
C11_StatsCountEveryRequest ==
  (impl = "core" /\ SearchRouteDone) =>
    stats.total_searches = 1 /\ DictCount(stats.searched_domains, Domain) = 1

\* C12: with no token configured, a route issues no upstream request and
\* makes no session; /health answers unhealthy, token not configured, API
\* not connected; a search route answers with an error status and no
\* repository.
C12_NoTokenNoUpstream ==
  (entry = "route" /\ ~token) =>
    /\ page_log = <<>> /\ fetched = <<>> /\ readme_requests = <<>>
    /\ search_calls = 0 /\ session = "none"
    /\ (pc = "done" /\ route = "health") =>
         health = [status |-> "unhealthy", api_connected |-> FALSE,
                   github_token_configured |-> FALSE]
    /\ (pc = "done" /\ route # "health") =>
         http_status \in {422, 500, 503} /\ repositories = <<>>

\* C12: /health has answered without a token.
C12_Witness ==
  /\ entry = "route" /\ ~token /\ route = "health" /\ pc = "done"
  /\ health.status = "unhealthy" /\ http_status = 200

\* C13: with a token, /health reports api_connected only if the first page
\* of the test search was answered with status 200, and reports it false
\* when that page met another status or a transport failure.
C13_ApiConnectedIsLive ==
  (entry = "route" /\ route = "health" /\ token /\ pc = "done") =>
    /\ health.api_connected =>
         Len(page_log) >= 1 /\ page_log[1].kind \in {"ok", "noitems"}
    /\ FirstPageFailed => ~health.api_connected

\* C14: a search route calls the searcher only with a limit from 1 to 100.
C14_LimitInRange ==
  (entry = "route" /\ route # "health" /\ search_calls >= 1) =>
    limit >= 1 /\ limit <= 100

\* C16: every record search_repositories returns has a string as its
\* description and a string as its language.
C16_StringDefaults ==
  SearchDone =>
    \A i \in 1..Len(found) :
      found[i].description.t = "str" /\ found[i].language.t = "str"

\* The constructor of app/core/searcher.py was called alone and has ended.
CoreInitEnded == impl = "core" /\ entry = "init" /\ pc = "done"

C18_CliExitCodes ==
  entry = "cli" =>
    /\ pc # "done" => exit_code = -1
    /\ (pc = "done" /\ ~token) =>
         /\ exit_code = 1
         /\ session = "none" /\ github_token = NoToken
         /\ search_calls = 0 /\ page_log = <<>> /\ fetched = <<>>
    /\ (pc = "done" /\ token) =>
         /\ error # "none" => exit_code = 1
         /\ error = "none" => exit_code = 0

\* C18: a run whose search found nothing ended with code 0.
C18_Witness ==
  /\ entry = "cli" /\ pc = "done" /\ token
  /\ search_calls = 1 /\ found = <<>> /\ error = "none"
  /\ exit_code = 0

\* C15: a second call of search_repositories with the same domain and limit
\* against the same upstream issues the same requests and returns the
\* records the first call returned, in the same order.
C15_SearchDeterministic ==
  (entry = "search" /\ search_calls = 2 /\ pc \in {"returned", "raised", "done"}) =>
    /\ pc # "raised" /\ error = "none"
    /\ found = first_found
    /\ Len(page_log) = Len(upstream)
    /\ \A i \in 1..Len(page_log) :
         page_log[i].kind = upstream[i].kind /\ page_log[i].n = Len(upstream[i].items)

\* C15: the second call returned the two records of the first again, records
\* of different star counts.
C15_Witness ==
  /\ entry = "search" /\ search_calls = 2 /\ pc = "returned"
  /\ Len(found) = 2 /\ found = first_found
  /\ found[1].stars.v # found[2].stars.v

\* A direct call of get_readme_content of github_api_searcher.py has returned.
LegacyReadmeReturned == impl = "legacy" /\ entry = "readme" /\ pc = "returned"

\* The contents requests of the call are those of the candidates 1..k, in
\* order.
CandidatesInOrder ==
  LET contents == SelectSeq(readme_requests, LAMBDA q : q.op = "contents")
  IN /\ Len(contents) <= Len(ReadmeFiles)
     /\ \A k \in 1..Len(contents) : contents[k].file = k

\* C19 as claimed: the candidates are tried in order; a raw request is the
\* last request of the call, made for the first candidate whose contents
\* answer carries a usable download URL, and its text is the result; without
\* any raw request the result is None.
C19_FirstUsableCandidateReturned ==
  LegacyReadmeReturned =>
    /\ CandidatesInOrder
    /\ \A i \in 1..Len(readme_requests) :
         readme_requests[i].op = "raw" =>
           /\ i = Len(readme_requests)
           /\ readme_result = JStr(readme_requests[i].text)
    /\ (\A i \in 1..Len(readme_requests) : readme_requests[i].op # "raw") =>
         readme_result = None

\* C19, amended: the candidates are tried in order; a raw request follows
\* each contents answer that carries a usable download URL, and no other;
\* the first raw answer of status 200 is the last request and its text is
\* the result; after any other answer the next candidate is tried, and when
\* the last request is no raw answer of status 200 all four candidates were
\* tried and the result is None.
C19_FirstResolvingCandidate ==
  LegacyReadmeReturned =>
    /\ CandidatesInOrder
    /\ \A i \in 1..Len(readme_requests) :
         /\ readme_requests[i].op = "raw" =>
              /\ i > 1
              /\ readme_requests[i - 1].op = "contents"
              /\ readme_requests[i - 1].usable
              /\ readme_requests[i - 1].file = readme_requests[i].file
         /\ (readme_requests[i].op = "contents" /\ readme_requests[i].usable) =>
              /\ i < Len(readme_requests)
              /\ readme_requests[i + 1].op = "raw"
         /\ (readme_requests[i].op = "raw" /\ readme_requests[i].kind = "ok") =>
              /\ i = Len(readme_requests)
              /\ readme_result = JStr(readme_requests[i].text)
    /\ LET last == readme_requests[Len(readme_requests)]
       IN ~(last.op = "raw" /\ last.kind = "ok") =>
            /\ readme_result = None
            /\ Len(SelectSeq(readme_requests, LAMBDA q : q.op = "contents")) = Len(ReadmeFiles)

\* C19: the raw request of README.md failed and the text of README.rst was
\* returned.
C19_Witness ==
  /\ LegacyReadmeReturned
  /\ Len(readme_requests) = 4
  /\ readme_requests[2] = Request("raw", 1, "status", FALSE, EmptyText)
  /\ readme_requests[4] = Request("raw", 2, "ok", FALSE, Hi)
  /\ readme_result = JStr(Hi)

\* The requests of a run stay within their bounds: at most three search
\* pages per call, at most one call of get_readme_content per record
\* returned, and at most one request (app/core/searcher.py) or eight
\* (github_api_searcher.py) per call of get_readme_content.
RequestBounds ==
  /\ Len(page_log) <= 3
  /\ Len(readme_requests) <= (IF impl = "core" THEN 1 ELSE 8)
  /\ WithReadmes =>
       /\ Len(fetched) <= Len(found)
       /\ \A i, j \in 1..Len(fetched) : fetched[i] = fetched[j] => i = j

\* C20: a call of search_repositories or search_and_get_readmes comes to its
\* end (it returns or raises), and the requests stay within their bounds
\* all along.
C20_BoundedAndTerminates ==
  /\ []RequestBounds
  /\ (pc = "search") ~> (pc \in {"returned", "raised"})

\* C20: a run of the legacy searcher returned after the eight requests of a
\* record whose four candidates all failed at the raw request.
C20_Witness ==
  /\ WithReadmes /\ impl = "legacy" /\ pc = "returned"
  /\ Len(page_log) = 1 /\ Len(found) = 2 /\ Len(fetched) = 2
  /\ Len(readme_requests) = 8

\* C21: nothing is asked for twice: the pages of a search are requested in
\* the order 1, 2, 3, each once; get_readme_content runs once for a record,
\* whether it failed or not; and within one call of it no URL (the readme
\* endpoint, the contents of a candidate file, its download URL) is
\* requested twice.
C21_NoRetry ==
  /\ \A i \in 1..Len(page_log) : page_log[i].page = i /\ i <= 3
  /\ \A i, j \in 1..Len(page_log) : page_log[i].page = page_log[j].page => i = j
  /\ \A i, j \in 1..Len(fetched) : fetched[i] = fetched[j] => i = j
  /\ \A i, j \in 1..Len(readme_requests) :
       (readme_requests[i].op = readme_requests[j].op
        /\ readme_requests[i].file = readme_requests[j].file) => i = j

\* C21: the README request of the first of two records failed, the second
\* record was fetched next and the list was returned.
C21_Witness ==
  /\ impl = "core" /\ EnrichReturned /\ Len(page_log) = 1
  /\ fetched = <<1, 2>>
  /\ repositories[1].readme_content = None
  /\ readme_requests = <<Request("readme", 0, "ok", FALSE, EmptyText)>>

\* The second loop of search_and_get_readmes is awaiting a task.
AwaitingTask == WithReadmes /\ pc = "await_readme"

AssignmentsTo(i) == SelectSeq(readme_log, LAMBDA e : e.target = i)

\* C23: search creates every record without README content; a run of
\* search_and_get_readmes assigns each record's readme_content once, the
\* result of the call made for that record (None if it raised), and changes
\* no other field; the records of search_repositories alone, the no-readme
\* route included, keep readme_content absent.
C23_ReadmeAssignedOnce ==
  /\ \A i \in 1..Len(found) : found[i].readme_content = None
  /\ \A i \in 1..Len(repositories) :
       /\ [repositories[i] EXCEPT !.readme_content = None] = found[i]
       /\ Len(AssignmentsTo(i)) <= 1
       /\ Len(AssignmentsTo(i)) = 0 => repositories[i].readme_content = None
       /\ Len(AssignmentsTo(i)) = 1 =>
            /\ AssignmentsTo(i)[1].rec = i
            /\ repositories[i].readme_content =
                 IF AssignmentsTo(i)[1].value = Exc THEN None ELSE AssignmentsTo(i)[1].value
  /\ EnrichReturned => \A i \in 1..Len(repositories) : Len(AssignmentsTo(i)) = 1
  /\ (entry \in {"route", "cli", "search"} /\ ~WithReadmes) => readme_log = <<>>

\* C23: two records were returned, each with the text of its own README.
C23_Witness ==
  /\ impl = "core" /\ EnrichReturned /\ Len(repositories) = 2
  /\ repositories[1].readme_content = JStr(Hi)
  /\ repositories[2].readme_content = JStr(EmptyText)
  /\ readme_log[1] = [rec |-> 1, value |-> JStr(Hi), target |-> 1]
  /\ readme_log[2] = [rec |-> 2, value |-> JStr(EmptyText), target |-> 2]

\* The run is inside the body of `async with searcher`.
InBlock == pc \notin {"start", "done"}

\* C24: inside the body of `async with searcher` the session is there and
\* carries the Authorization header made of the searcher's token; it is
\* open nowhere else, and once the block has been left (after a return,
\* after pagination stopped early, after an exception) it is closed.
C24_SessionScoped ==
  /\ InBlock => session = "open" /\ authorization = AuthHeader(github_token)
  /\ session = "open" => InBlock
  /\ (pc = "done" /\ authorization # NoHeader) => session = "closed"
  /\ (pc = "done" /\ authorization = NoHeader) =>
       session = "none" /\ search_calls = 0 /\ readme_log = <<>>

\* C24: an exception left the block of a route and the session is closed.
C24_Witness ==
  /\ entry = "route" /\ pc = "done" /\ error = KeyError /\ http_status = 500
  /\ session = "closed" /\ authorization = AuthHeader(EnvToken)

\* The handlers whose search has returned and whose statistics are still to
\* be updated.
Pending ==
  {h \in Handlers : /\ handlers[h].pc = "respond"
                    /\ handlers[h].route # "health"
                    /\ ~handlers[h].outcome.raised}

RECURSIVE PendingRecords(_)
PendingRecords(hs) ==
  IF hs = {} THEN 0
  ELSE LET h == CHOOSE x \in hs : TRUE
       IN handlers[h].outcome.n + PendingRecords(hs \ {h})

\* No request is in progress.
Quiescent == \A h \in Handlers : handlers[h].pc \in {"idle", "answered"}

\* C25: however the handlers of concurrent requests interleave, no update of
\* the statistics is lost: total_searches and total_repositories_found
\* account for every search that has returned to a handler that has gone on
\* to its answer, and once no request is in progress they equal the number
\* of searches that returned and the sum of the lengths of their lists.
C25_NoLostUpdate ==
  /\ stats.total_searches + Cardinality(Pending) = completed.searches
  /\ stats.total_repositories_found + PendingRecords(Pending) = completed.records
  /\ Quiescent =>
       /\ stats.total_searches = completed.searches
       /\ stats.total_repositories_found = completed.records

\* C25: the searches of two requests for the same domain have both returned
\* before either handler has updated the statistics.
C25_Witness ==
  /\ Pending = {1, 2}
  /\ handlers[1].domain = handlers[2].domain
  /\ handlers[1].outcome.n = 1 /\ handlers[2].outcome.n = 2
  /\ stats.total_searches = 1 /\ completed.searches = 3

RECURSIVE SumCounts(_, _)
SumCounts(sd, k) == IF k = 0 THEN 0 ELSE sd[k].count + SumCounts(sd, k - 1)

\* C26: in every state of the service the counts of the domains add up to
\* total_searches, every domain stored has a count of at least 1 (and is
\* stored once), and total_repositories_found is at most 100 times
\* total_searches.
C26_StatsConsistent ==
  LET sd == stats.searched_domains
  IN /\ SumCounts(sd, Len(sd)) = stats.total_searches
     /\ \A i \in 1..Len(sd) : sd[i].count >= 1
     /\ \A i, j \in 1..Len(sd) : sd[i].domain = sd[j].domain => i = j
     /\ stats.total_repositories_found <= 100 * stats.total_searches

\* C26: two searches of one domain with limit 100 returned 100 records each.
C26_Witness ==
  /\ entry = "full" /\ Quiescent
  /\ stats = [total_searches |-> 2, total_repositories_found |-> 200,
              searched_domains |-> <<[domain |-> 1, count |-> 2]>>]

\* C27: the statistics change only through a search request that is
\* answered 200: a search request answered with an error status and the
\* health check, its test search included, leave them as they were.
C27_StatsOnlyOnSuccess ==
  /\ (entry = "route" /\ route = "health") => stats = NoStats
  /\ (entry = "route" /\ pc = "done" /\ http_status # 200) => stats = NoStats

\* The domains of the dict that the response does not list.
Omitted(sd, most) ==
  {i \in 1..Len(sd) : \A k \in 1..Len(most) : most[k] # sd[i].domain}

\* C28: the answer of GET /stats to the statistics of any state: it carries
\* the two counters as they are; the average is 0 when there was no search;
\* most_searched_domains lists at most ten domains, each once, each searched
\* at least once, in non-increasing order of their counts, and no domain
\* left out has a higher count than a listed one.  The handler answers 200
\* with it.
C28_StatsResponse ==
  LET sd == stats.searched_domains
      r == GetApiStats(stats)
      most == r.most_searched_domains
  IN /\ r.total_searches = stats.total_searches
     /\ r.total_repositories_found = stats.total_repositories_found
     /\ stats.total_searches = 0 => r.average_repositories_per_search = 0
     /\ Len(most) <= 10 /\ Len(most) = Min(10, Len(sd))
     /\ \A i, j \in 1..Len(most) : most[i] = most[j] => i = j
     /\ \A i \in 1..Len(most) : DictCount(sd, most[i]) >= 1
     /\ \A i \in 1..(Len(most) - 1) : DictCount(sd, most[i]) >= DictCount(sd, most[i + 1])
     /\ \A o \in Omitted(sd, most) : \A i \in 1..Len(most) : sd[o].count <= DictCount(sd, most[i])
     /\ \A h \in Handlers :
          handlers[h].route = "stats" =>
            /\ handlers[h].status = 200
            /\ entry # "burst" => handlers[h].response = r

\* C28: eleven domains were searched, the last of them twice; the answer
\* lists ten, the last one first, and leaves the tenth out.
C28_Witness ==
  /\ entry = "long" /\ Len(stats.searched_domains) = 11
  /\ stats.searched_domains[11].count = 2
  /\ handlers[1].route = "stats"
  /\ Len(handlers[1].response.most_searched_domains) = 10
  /\ handlers[1].response.most_searched_domains[1] = 11
  /\ Omitted(stats.searched_domains, handlers[1].response.most_searched_domains) = {10}

\* The loop of a search is over with the items the loop, computed as a
\* function of the upstream's pages, accumulates.
SearchLoopAgrees == PagingOver => all_repos = SearchLoop(limit, upstream, 1, <<>>)

\* C29: the limit fixes the number of page requests of a search: exactly
\* one for a limit from 1 to 50, whatever the upstream answers; at most two
\* for a limit from 51 to 100; a third only for a limit above 100.  For a
\* limit up to 100 the loop never ends because of the cap of three pages: a
\* loop that ends after a full page has accumulated 2 * limit items.
C29_PagesFixedByLimit ==
  /\ (limit >= 1 /\ limit <= 50) =>
       /\ Len(page_log) <= 1
       /\ PagingOver => Len(page_log) = 1
  /\ (limit >= 51 /\ limit <= 100) =>
       /\ Len(page_log) <= 2
       /\ PagingOver => Len(page_log) >= 1
  /\ Len(page_log) >= 3 => limit > 100
  /\ (limit >= 1 /\ limit <= 100 /\ PagingOver
      /\ ~FailedPage(page_log[Len(page_log)])
      /\ page_log[Len(page_log)].n >= page_log[Len(page_log)].per_page) =>
       Accumulated >= 2 * limit /\ Len(page_log) < 3

\* C29: a search with limit 100 ended after two full pages.
C29_Witness ==
  /\ entry = "search" /\ limit = 100 /\ pc = "returned"
  /\ Len(page_log) = 2 /\ page_log[1].n = 100 /\ page_log[2].n = 100
  /\ Len(found) = 100

\* The items of the pages the upstream answered, in order.
RECURSIVE UpstreamItems(_)
UpstreamItems(k) ==
  IF k = 0 THEN <<>> ELSE UpstreamItems(k - 1) \o upstream[k].items

\* Every item of the upstream's pages has all its keys, and the items are in
\* non-increasing order of stars across the pages.
WellOrdered ==
  LET its == UpstreamItems(Len(upstream))
  IN /\ \A i \in 1..Len(its) :
          /\ ~KeyErrorIn("legacy", its[i])
          /\ HasKey(its[i], "description") /\ HasKey(its[i], "language")
     /\ \A i \in 1..(Len(its) - 1) :
          its[i].stargazers_count.v >= its[i + 1].stargazers_count.v

\* Both searchers have been called, one after the other.
TwinDone == entry = "twin" /\ search_calls = 2 /\ pc \in {"returned", "raised", "done"}

\* C30: against pages whose items are complete and in non-increasing order
\* of stars, search_repositories of the one searcher and of the other issue
\* the same page requests and return the same records in the same order.
C30_SearchersAgree ==
  (TwinDone /\ WellOrdered) =>
    /\ pc # "raised" /\ error = "none"
    /\ page_log = first_log
    /\ found = first_found

\* C30: both searchers returned the same two records of different stars,
\* the legacy one called second.
C30_Witness ==
  /\ TwinDone /\ WellOrdered /\ impl = "legacy" /\ pc = "returned"
  /\ Len(found) = 2 /\ found = first_found
  /\ found[1].stars.v > found[2].stars.v

====
